---- MODULE Spec2Model ----
(***************************************************************************)
(* Model of exporters/openvpn_exporter.go: the OpenVPN status snapshot     *)
(* parser and metric reducer, its format detector, the memoized geo        *)
(* resolver and the Collect entry point.                                   *)
(*                                                                         *)
(* A Go string is a sequence of atoms.  The atoms ",", "\t" and ":" are    *)
(* the single bytes the code splits on; every other atom is an opaque,     *)
(* non-empty run of bytes containing none of those three.  The empty       *)
(* string is << >>.  A float64 is modelled by an integer (distances are    *)
(* rounded to whole metres).                                               *)
(*                                                                         *)
(* Spec follows one Collect call line by line.  SpecGeo follows the getGeo *)
(* calls of Collect calls that run in two goroutines at once.              *)
(***************************************************************************)
EXTENDS Integers, Sequences, FiniteSets, TLC

VARIABLES
    pc,                    \* position of the exporter: new, idle, detect, scan, done
    geoCache,              \* var geoCache map[string]GeoIP
    geoIP,                 \* OpenVPNExporter.geoIP
    lookups,               \* addresses for which http.Get was issued, in order
    corpus,                \* which family of status files the file on disk belongs to
    statusFile,            \* the part of the status file read so far, as lines
    ioFailed,              \* the underlying reader has returned a read error
    scanned,               \* number of lines scanner.Scan() has delivered
    separator,             \* separator argument of collectServerStatusFromReader
    headersFound,          \* headersFound map[string][]string
    numberConnectedClient, \* numberConnectedClient
    recordedMetrics,       \* recordedMetrics map[OpenvpnServerHeaderField][]string
    ch,                    \* tuples sent on ch during this scrape, in order
    err,                   \* error returned to Collect ("nil" when none)
    rowLog,                \* one entry per CLIENT_LIST / ROUTING_TABLE row that passed the header checks
    scrapers               \* concurrent Collect calls: each goroutine's position and getGeo locals

vars == <<pc, geoCache, geoIP, lookups, corpus, statusFile, ioFailed, scanned, separator,
          headersFound, numberConnectedClient, recordedMetrics, ch, err, rowLog,
          scrapers>>

(***************************************************************************)
(* Bounds                                                                  *)
(***************************************************************************)
MaxLines == 5

\* getGeo calls made by one goroutine over its Collect calls
MaxResolves == 2

(***************************************************************************)
(* Go strings                                                              *)
(***************************************************************************)
S(a) == <<a>>

EmptyString == << >>

Comma == ","

Tab == "\t"

Colon == ":"

\* bytes.HasPrefix(buf, prefix)
HasPrefix(buf, prefix) ==
    /\ Len(buf) >= Len(prefix)
    /\ SubSeq(buf, 1, Len(prefix)) = prefix

\* position of the first occurrence of the byte sep in s, 0 if none
IndexByte(s, sep) ==
    IF \E i \in 1..Len(s) : s[i] = sep
    THEN CHOOSE i \in 1..Len(s) : s[i] = sep /\ \A j \in 1..(i-1) : s[j] # sep
    ELSE 0

\* strings.Split(s, sep) for a one-byte separator
RECURSIVE Split(_, _)
Split(s, sep) ==
    LET i == IndexByte(s, sep)
    IN  IF i = 0 THEN <<s>>
        ELSE <<SubSeq(s, 1, i-1)>> \o Split(SubSeq(s, i+1, Len(s)), sep)

\* strconv.ParseFloat(s, 64): the numeric texts the model uses and their values
NumericValue ==
    [t \in {"0", "100", "0100", "200", "300", "1700000000",
            "0.000000", "5346802.097179", "16607138.176479", "15868588.873879"} |->
        CASE t = "0" -> 0
          [] t = "100" -> 100
          [] t = "0100" -> 100
          [] t = "200" -> 200
          [] t = "300" -> 300
          [] t = "1700000000" -> 1700000000
          [] t = "0.000000" -> 0
          [] t = "5346802.097179" -> 5346802
          [] t = "16607138.176479" -> 16607138
          [] t = "15868588.873879" -> 15868589]

ParseFloat(s) ==
    IF Len(s) = 1 /\ s[1] \in DOMAIN NumericValue
    THEN [ok |-> TRUE, value |-> NumericValue[s[1]]]
    ELSE [ok |-> FALSE, value |-> 0]

(***************************************************************************)
(* Geo resolver                                                            *)
(***************************************************************************)
ZeroGeoIP ==
    [Ip |-> EmptyString, CountryName |-> EmptyString, RegionName |-> EmptyString,
     City |-> EmptyString, Lat |-> 0, Lon |-> 0, Geohash |-> EmptyString]

\* geohash.Encode(lat, lon) on the coordinates the model uses
GeohashEncode(lat, lon) ==
    CASE lat = 0 /\ lon = 0 -> S("s00000000000")
      [] lat = 48 /\ lon = 2 -> S("u093jd0k72s1")
      [] lat = -27 /\ lon = 153 -> S("r7hy3sg1w7hy")

\* the JSON body ip-api.com answers for an address ("" is the caller's own address)
IpApiAnswer(address) ==
    CASE address = EmptyString ->
            [Ip |-> S("9.9.9.9"), CountryName |-> S("France"), RegionName |-> S("IDF"),
             City |-> S("Paris"), Lat |-> 48, Lon |-> 2, Geohash |-> EmptyString]
      [] address = S("1.2.3.4") ->
            [Ip |-> S("1.2.3.4"), CountryName |-> S("Australia"), RegionName |-> S("Queensland"),
             City |-> EmptyString, Lat |-> -27, Lon |-> 153, Geohash |-> EmptyString]
      [] OTHER ->
            [Ip |-> address, CountryName |-> EmptyString, RegionName |-> EmptyString,
             City |-> EmptyString, Lat |-> 0, Lon |-> 0, Geohash |-> EmptyString]

\* getGeo with its error results taken for successes
getGeoIgnoresError(address, cache) ==
    IF address \in DOMAIN cache
    THEN {[geo |-> cache[address], failed |-> FALSE, cache |-> cache, looked |-> FALSE]}
    ELSE LET body == IpApiAnswer(address)
             geo  == [body EXCEPT !.Geohash = GeohashEncode(body.Lat, body.Lon)]
         IN  { [geo |-> ZeroGeoIP, failed |-> FALSE, cache |-> cache, looked |-> TRUE],
               [geo |-> geo, failed |-> FALSE,
                cache |-> [a \in DOMAIN cache \cup {address} |->
                              IF a = address THEN geo ELSE cache[a]],
                looked |-> TRUE] }

\* getGeo(address): the set of possible results [geo, failed, cache, looked]
getGeo(address, cache) ==
    IF address \in DOMAIN cache
    THEN {[geo |-> cache[address], failed |-> FALSE, cache |-> cache, looked |-> FALSE]}
    ELSE LET body == IpApiAnswer(address)
             geo  == [body EXCEPT !.Geohash = GeohashEncode(body.Lat, body.Lon)]
         IN  { \* http.Get, ioutil.ReadAll or json.Unmarshal (which validates the body
               \* before decoding any field) failed: geo is still GeoIP{}
               [geo |-> ZeroGeoIP, failed |-> TRUE, cache |-> cache, looked |-> TRUE],
               \* success: the result is cached
               [geo |-> geo, failed |-> FALSE,
                cache |-> [a \in DOMAIN cache \cup {address} |->
                              IF a = address THEN geo ELSE cache[a]],
                looked |-> TRUE] }

\* hsin and distance, rounded to metres, on the coordinates the model uses
distance(lat1, lon1, lat2, lon2) ==
    LET p == <<lat1, lon1>>
        q == <<lat2, lon2>>
        pair == {p, q}
    IN  CASE p = q -> 0
          [] pair = {<<0, 0>>, <<48, 2>>} -> 5346802
          [] pair = {<<-27, 153>>, <<48, 2>>} -> 16607138
          [] pair = {<<0, 0>>, <<-27, 153>>} -> 15868589

\* fmt.Sprintf("%f", d)
SprintfF(d) ==
    CASE d = 0 -> S("0.000000")
      [] d = 5346802 -> S("5346802.097179")
      [] d = 16607138 -> S("16607138.176479")
      [] d = 15868589 -> S("15868588.873879")

\* the five server-level label values
ServerLabels(g) == <<g.Geohash, g.City, g.CountryName, g.RegionName, g.Ip>>

(***************************************************************************)
(* Record schema registry (NewOpenVPNExporter)                             *)
(***************************************************************************)
serverHeaderClientLabelColumns ==
    <<S("Common Name"), S("Connected Since (time_t)"), S("Real Address"),
      S("Virtual Address"), S("Username"), S("Geohash"), S("City"), S("Country"), S("Region")>>

serverHeaderRoutingLabelColumns ==
    <<S("Common Name"), S("Real Address"), S("Virtual Address"), S("Username"),
      S("Geohash"), S("City"), S("Country"), S("Region")>>

\* the registry with the sent-bytes field listed before the received-bytes field
openvpnServerHeadersSentFirst ==
    [t \in {S("CLIENT_LIST"), S("ROUTING_TABLE")} |->
        IF t = S("CLIENT_LIST")
        THEN [LabelColumns |-> serverHeaderClientLabelColumns,
              Metrics |-> <<[Column |-> S("Bytes Sent"),
                             Desc |-> "openvpn_server_client_sent_bytes_total",
                             ValueType |-> "counter"],
                            [Column |-> S("Bytes Received"),
                             Desc |-> "openvpn_server_client_received_bytes_total",
                             ValueType |-> "counter"],
                            [Column |-> S("Distance From Server"),
                             Desc |-> "openvpn_server_client_distance",
                             ValueType |-> "gauge"]>>]
        ELSE [LabelColumns |-> serverHeaderRoutingLabelColumns,
              Metrics |-> <<[Column |-> S("Last Ref (time_t)"),
                             Desc |-> "openvpn_server_route_last_reference_time_seconds",
                             ValueType |-> "gauge"]>>]]

openvpnServerHeaders ==
    [t \in {S("CLIENT_LIST"), S("ROUTING_TABLE")} |->
        IF t = S("CLIENT_LIST")
        THEN [LabelColumns |-> serverHeaderClientLabelColumns,
              Metrics |-> <<[Column |-> S("Bytes Received"),
                             Desc |-> "openvpn_server_client_received_bytes_total",
                             ValueType |-> "counter"],
                            [Column |-> S("Bytes Sent"),
                             Desc |-> "openvpn_server_client_sent_bytes_total",
                             ValueType |-> "counter"],
                            [Column |-> S("Distance From Server"),
                             Desc |-> "openvpn_server_client_distance",
                             ValueType |-> "gauge"]>>]
        ELSE [LabelColumns |-> serverHeaderRoutingLabelColumns,
              Metrics |-> <<[Column |-> S("Last Ref (time_t)"),
                             Desc |-> "openvpn_server_route_last_reference_time_seconds",
                             ValueType |-> "gauge"]>>]]

\* the keys recordedMetrics can hold
MetricDescs ==
    {"openvpn_server_client_received_bytes_total", "openvpn_server_client_sent_bytes_total",
     "openvpn_server_client_distance", "openvpn_server_route_last_reference_time_seconds"}

Range(f) == {f[i] : i \in DOMAIN f}

\* prometheus.MustNewConstMetric(desc, valueType, value, labels...) as sent on ch;
\* line is the number of lines the scanner had delivered when it was sent
Metric(desc, valueType, value, labels, line) ==
    [desc |-> desc, valueType |-> valueType, value |-> value, labels |-> labels, line |-> line]

\* Does slice contain string
contains(s, e) == \E i \in 1..Len(s) : s[i] = e

\* subslice with the length guard written >=
subsliceStrictLength(sub, main) ==
    IF Len(sub) >= Len(main) THEN FALSE
    ELSE \A i \in 1..Len(sub) : contains(main, sub[i])

\* Is a sub-slice of slice
subslice(sub, main) ==
    IF Len(sub) > Len(main) THEN FALSE
    ELSE \A i \in 1..Len(sub) : contains(main, sub[i])

(***************************************************************************)
(* Row processing of collectServerStatusFromReader                         *)
(***************************************************************************)
\* m[k] = v on a Go map
MapPut(m, k, v) == [x \in DOMAIN m \cup {k} |-> IF x = k THEN v ELSE m[x]]

\* columnValues after the two loops over header.LabelColumns and columnNames:
\* a column declared twice keeps the value of its last position
ColumnValues(header, columnNames, fields) ==
    [c \in Range(header.LabelColumns) \cup Range(columnNames) |->
        IF c \in Range(columnNames)
        THEN LET i == CHOOSE i \in 1..Len(columnNames) :
                          /\ columnNames[i] = c
                          /\ \A j \in (i+1)..Len(columnNames) : columnNames[j] # c
             IN  fields[i+1]
        ELSE EmptyString]

\* "Unknown" for an empty resolver field
OrUnknown(s) == IF s # EmptyString THEN s ELSE S("Unknown")

\* the synthesized columns with the distance computed whatever the server's coordinates
GeoColumnsAlwaysDistance(columnValues, geo, server) ==
    LET c1 == MapPut(columnValues, S("Geohash"), geo.Geohash)
        c2 == MapPut(c1, S("City"), OrUnknown(geo.City))
        c3 == MapPut(c2, S("Region"), OrUnknown(geo.RegionName))
        c4 == MapPut(c3, S("Country"), OrUnknown(geo.CountryName))
    IN  MapPut(c4, S("Distance From Server"),
               SprintfF(distance(geo.Lat, geo.Lon, server.Lat, server.Lon)))

\* the columns synthesized after a successful getGeo
GeoColumns(columnValues, geo, server) ==
    LET c1 == MapPut(columnValues, S("Geohash"), geo.Geohash)
        c2 == MapPut(c1, S("City"), OrUnknown(geo.City))
        c3 == MapPut(c2, S("Region"), OrUnknown(geo.RegionName))
        c4 == MapPut(c3, S("Country"), OrUnknown(geo.CountryName))
    IN  IF server.Lon = 0 /\ server.Lat = 0
        THEN MapPut(c4, S("Distance From Server"), S("0"))
        ELSE MapPut(c4, S("Distance From Server"),
                    SprintfF(distance(geo.Lat, geo.Lon, server.Lat, server.Lon)))

\* the address handed to getGeo for a Real Address
AddressOf(realAddress) == Split(realAddress, Colon)[1]

\* labels built from the header's label columns only
RowLabelsNoServer(server, header, columnValues) ==
    [i \in 1..Len(header.LabelColumns) |-> columnValues[header.LabelColumns[i]]]

\* labels: the server labels followed by the header's label columns
RowLabels(server, header, columnValues) ==
    ServerLabels(server) \o
        [i \in 1..Len(header.LabelColumns) |-> columnValues[header.LabelColumns[i]]]

\* the loop over header.Metrics from metric i on; acc = [recorded, sent, err]
RECURSIVE ExportMetrics(_, _, _, _, _, _)
ExportMetrics(metrics, i, columnValues, labels, line, acc) ==
    IF i > Len(metrics) THEN acc
    ELSE LET metric == metrics[i]
         IN  IF metric.Column \notin DOMAIN columnValues
             THEN ExportMetrics(metrics, i+1, columnValues, labels, line, acc)
             ELSE IF subslice(labels, acc.recorded[metric.Desc])
             THEN ExportMetrics(metrics, i+1, columnValues, labels, line, acc)
             ELSE LET parsed == ParseFloat(columnValues[metric.Column])
                  IN  IF ~parsed.ok
                      THEN [acc EXCEPT !.err = "ParseFloat"]
                      ELSE ExportMetrics(metrics, i+1, columnValues, labels, line,
                              [recorded |-> [acc.recorded EXCEPT ![metric.Desc] = @ \o labels],
                               sent |-> Append(acc.sent,
                                           Metric(metric.Desc, metric.ValueType,
                                                  parsed.value, labels, line)),
                               err |-> "nil"])

\* the chain with the HEADER branch taken from 2 fields on
LineKindHeaderTwoFields(fields) ==
    IF fields[1] = S("END") /\ Len(fields) = 1 THEN "END"
    ELSE IF fields[1] = S("GLOBAL_STATS") THEN "GLOBAL_STATS"
    ELSE IF fields[1] = S("HEADER") /\ Len(fields) > 1 THEN "HEADER"
    ELSE IF fields[1] = S("TIME") /\ Len(fields) = 3 THEN "TIME"
    ELSE IF fields[1] = S("TITLE") /\ Len(fields) = 2 THEN "TITLE"
    ELSE IF fields[1] \in DOMAIN openvpnServerHeaders THEN "ROW"
    ELSE "UNSUPPORTED"

\* which branch of the if / else-if chain a line takes
LineKind(fields) ==
    IF fields[1] = S("END") /\ Len(fields) = 1 THEN "END"
    ELSE IF fields[1] = S("GLOBAL_STATS") THEN "GLOBAL_STATS"
    ELSE IF fields[1] = S("HEADER") /\ Len(fields) > 2 THEN "HEADER"
    ELSE IF fields[1] = S("TIME") /\ Len(fields) = 3 THEN "TIME"
    ELSE IF fields[1] = S("TITLE") /\ Len(fields) = 2 THEN "TITLE"
    ELSE IF fields[1] \in DOMAIN openvpnServerHeaders THEN "ROW"
    ELSE "UNSUPPORTED"

(***************************************************************************)
(* Status files: the lines a snapshot is drawn from                        *)
(***************************************************************************)
\* a line whose fields are fs, written with separator sep
RECURSIVE Join(_, _)
Join(fs, sep) ==
    IF Len(fs) = 1 THEN fs[1]
    ELSE fs[1] \o <<sep>> \o Join(Tail(fs), sep)

HeaderLine(sep, rtype, columns) ==
    Join(<<S("HEADER"), S(rtype)>> \o [i \in 1..Len(columns) |-> S(columns[i])], sep)

RowLine(sep, rtype, values) == Join(<<S(rtype)>> \o values, sep)

ClientAddress == <<"1.2.3.4", Colon, "5000">>

\* an IPv6 peer: 2001:db8:1 with port 5000
ClientAddress6 == <<"2001", Colon, "db8", Colon, "1", Colon, "5000">>

FirstLines ==
    { Join(<<S("TITLE"), S("OpenVPN 2.4")>>, Comma),
      Join(<<S("TITLE"), S("OpenVPN 2.4")>>, Tab),
      S("OpenVPN STATISTICS"),
      S("TITLE"),
      S("Updated") }

\* the status files on disk, by family: the lines that follow the first one
\* are drawn from the family's set
Corpus ==
    [c \in {"plain", "addresses", "anonymous", "markers", "tabs", "users", "example", "ipv6"} |->
        IF c = "plain" THEN
            { HeaderLine(Comma, "CLIENT_LIST", <<"Common Name", "Bytes Received">>),
              HeaderLine(Comma, "CLIENT_LIST", <<"Common Name">>),
              RowLine(Comma, "CLIENT_LIST", <<S("alice")>>),
              RowLine(Comma, "CLIENT_LIST", <<S("alice"), S("100")>>),
              RowLine(Comma, "CLIENT_LIST", <<S("alice"), S("n/a")>>),
              Join(<<S("TIME"), S("Mon Nov 13"), S("1700000000")>>, Comma) }
        ELSE IF c = "addresses" THEN
            { HeaderLine(Comma, "CLIENT_LIST",
                         <<"Common Name", "Real Address", "Bytes Received", "Bytes Sent">>),
              RowLine(Comma, "CLIENT_LIST", <<S("alice"), ClientAddress, S("100"), S("200")>>),
              RowLine(Comma, "CLIENT_LIST", <<S("bob"), ClientAddress, S("0100"), S("n/a")>>),
              HeaderLine(Comma, "ROUTING_TABLE",
                         <<"Common Name", "Real Address", "Last Ref (time_t)">>),
              RowLine(Comma, "ROUTING_TABLE", <<S("alice"), ClientAddress, S("300")>>) }
        ELSE IF c = "anonymous" THEN
            { HeaderLine(Comma, "CLIENT_LIST",
                         <<"Common Name", "Real Address", "Bytes Received", "Bytes Sent">>),
              RowLine(Comma, "CLIENT_LIST", <<S("UNDEF"), ClientAddress, S("100"), S("200")>>),
              HeaderLine(Comma, "CLIENT_LIST", <<"Bytes Received">>),
              RowLine(Comma, "CLIENT_LIST", <<S("alice")>>),
              HeaderLine(Comma, "CLIENT_LIST", <<"Common Name", "Bytes Received">>),
              RowLine(Comma, "CLIENT_LIST", <<EmptyString, S("100")>>),
              RowLine(Comma, "CLIENT_LIST", <<S("alice"), S("100")>>) }
        ELSE IF c = "markers" THEN
            { S("END"),
              Join(<<S("GLOBAL_STATS"), S("Max bcast/mcast queue length"), S("0")>>, Comma),
              Join(<<S("TIME"), S("Mon Nov 13"), S("never")>>, Comma),
              S("Updated"),
              HeaderLine(Comma, "CLIENT_LIST", << >>),
              HeaderLine(Comma, "ROUTING_TABLE", <<"Common Name", "Last Ref (time_t)">>),
              RowLine(Comma, "ROUTING_TABLE", <<S("UNDEF"), S("300")>>),
              RowLine(Comma, "ROUTING_TABLE", <<S("alice"), S("300")>>),
              RowLine(Comma, "CLIENT_LIST", <<S("alice"), S("100")>>) }
        ELSE IF c = "users" THEN
            { HeaderLine(Comma, "CLIENT_LIST", <<"Common Name", "Username", "Bytes Received">>),
              RowLine(Comma, "CLIENT_LIST", <<S("alice"), S("u1"), S("100")>>),
              RowLine(Comma, "CLIENT_LIST", <<S("bob"), S("u2"), S("100")>>),
              RowLine(Comma, "CLIENT_LIST", <<S("alice"), S("u2"), S("100")>>) }
        ELSE IF c = "example" THEN
            { HeaderLine(Comma, "CLIENT_LIST", <<"Common Name", "Bytes Received", "Bytes Sent">>),
              HeaderLine(Comma, "CLIENT_LIST", <<"Common Name", "Bytes Sent", "Bytes Received">>),
              RowLine(Comma, "CLIENT_LIST", <<S("alice"), S("100"), S("200")>>) }
        ELSE IF c = "ipv6" THEN
            { HeaderLine(Comma, "CLIENT_LIST", <<"Common Name", "Real Address", "Bytes Received">>),
              RowLine(Comma, "CLIENT_LIST", <<S("carol"), ClientAddress6, S("100")>>),
              RowLine(Comma, "CLIENT_LIST", <<S("alice"), ClientAddress, S("100")>>) }
        ELSE
            { HeaderLine(Tab, "CLIENT_LIST", <<"Common Name", "Bytes Received">>),
              RowLine(Tab, "CLIENT_LIST", <<S("alice"), S("100")>>),
              RowLine(Comma, "CLIENT_LIST", <<S("alice"), S("100")>>),
              HeaderLine(Comma, "CLIENT_LIST", <<"Common Name", "Bytes Received">>),
              S("END") }]

Lines == UNION {Corpus[c] : c \in DOMAIN Corpus}

\* reader.Peek(18): the bytes the prefix tests look at all lie on the first line
Peek(file) == IF file = << >> THEN EmptyString ELSE file[1]

\* the goroutines in which the registry runs Collect for simultaneous scrape requests
Scrapers == {1, 2}

\* the addresses the rows of their snapshots carry
ScrapedAddresses == {S("1.2.3.4"), S("5.6.7.8")}

(***************************************************************************)
(* State machine                                                           *)
(***************************************************************************)
Init ==
    /\ pc = "new"
    /\ geoCache = [a \in {} |-> ZeroGeoIP]
    /\ geoIP = ZeroGeoIP
    /\ lookups = << >>
    /\ corpus = "unopened"
    /\ statusFile = << >>
    /\ ioFailed = FALSE
    /\ scanned = 0
    /\ separator = ""
    /\ headersFound = [t \in {} |-> << >>]
    /\ numberConnectedClient = 0
    /\ recordedMetrics = [d \in MetricDescs |-> << >>]
    /\ ch = << >>
    /\ err = "nil"
    /\ rowLog = << >>
    /\ scrapers = [g \in Scrapers |->
                      [pc |-> "idle", address |-> EmptyString, geo |-> ZeroGeoIP, resolves |-> 0]]

\* NewOpenVPNExporter: resolves the server's own location, keeps whatever getGeo returned
NewOpenVPNExporter ==
    /\ pc = "new"
    /\ \E r \in getGeo(EmptyString, geoCache) :
          /\ geoIP' = r.geo
          /\ geoCache' = r.cache
          /\ lookups' = IF r.looked THEN Append(lookups, EmptyString) ELSE lookups
    /\ pc' = "idle"
    /\ UNCHANGED <<scrapers, corpus, statusFile, ioFailed, scanned, separator, headersFound,
                   numberConnectedClient, recordedMetrics, ch, err, rowLog>>

\* Collect sending 1.0 in both branches
UpValueAlwaysOne(e) == 1

\* Collect: the value of the up tuple, 1 when collectStatusFromFile returned nil, else 0
UpValue(e) == IF e = "nil" THEN 1 ELSE 0

\* collectStatusFromFile returns e to Collect after the tuples in sent went out
\* on ch; Collect sends the up tuple and is done
Returns(e, sent, line) ==
    /\ err' = e
    /\ ch' = Append(sent, Metric("openvpn_up", "gauge", UpValue(e), ServerLabels(geoIP), line))
    /\ pc' = "done"

\* Collect -> collectStatusFromFile: os.Open fails and the error is returned
CollectOpenError ==
    /\ pc = "idle"
    /\ Returns("open", ch, 0)
    /\ UNCHANGED <<scrapers, corpus, geoCache, geoIP, lookups, statusFile, ioFailed, scanned, separator,
                   headersFound, numberConnectedClient, recordedMetrics, rowLog>>

\* Collect -> collectStatusFromFile -> collectStatusFromReader: the file opens and
\* reader.Peek(18) reads its beginning (nothing when it is empty or unreadable)
CollectOpen ==
    /\ pc = "idle"
    /\ corpus' \in DOMAIN Corpus
    /\ \/ \E first \in FirstLines : statusFile' = <<first>> /\ ioFailed' = FALSE
       \/ statusFile' = << >> /\ ioFailed' \in BOOLEAN
    /\ pc' = "detect"
    /\ UNCHANGED <<scrapers, geoCache, geoIP, lookups, scanned, separator, headersFound,
                   numberConnectedClient, recordedMetrics, ch, err, rowLog>>

\* collectStatusFromReader, prefix "TITLE,"
DetectServerV2 ==
    /\ pc = "detect"
    /\ HasPrefix(Peek(statusFile), <<"TITLE", Comma>>)
    /\ separator' = Comma
    /\ pc' = "scan"
    /\ UNCHANGED <<scrapers, corpus, geoCache, geoIP, lookups, statusFile, ioFailed, scanned, headersFound,
                   numberConnectedClient, recordedMetrics, ch, err, rowLog>>

\* the version 3 branch passing "," like the version 2 branch
DetectServerV3Comma ==
    /\ pc = "detect"
    /\ ~HasPrefix(Peek(statusFile), <<"TITLE", Comma>>)
    /\ HasPrefix(Peek(statusFile), <<"TITLE", Tab>>)
    /\ separator' = Comma
    /\ pc' = "scan"
    /\ UNCHANGED <<scrapers, corpus, geoCache, geoIP, lookups, statusFile, ioFailed, scanned, headersFound,
                   numberConnectedClient, recordedMetrics, ch, err, rowLog>>

\* collectStatusFromReader, prefix "TITLE\t"
DetectServerV3 ==
    /\ pc = "detect"
    /\ ~HasPrefix(Peek(statusFile), <<"TITLE", Comma>>)
    /\ HasPrefix(Peek(statusFile), <<"TITLE", Tab>>)
    /\ separator' = Tab
    /\ pc' = "scan"
    /\ UNCHANGED <<scrapers, corpus, geoCache, geoIP, lookups, statusFile, ioFailed, scanned, headersFound,
                   numberConnectedClient, recordedMetrics, ch, err, rowLog>>

\* collectStatusFromReader, prefix "OpenVPN STATISTICS"
DetectClient ==
    /\ pc = "detect"
    /\ ~HasPrefix(Peek(statusFile), <<"TITLE", Comma>>)
    /\ ~HasPrefix(Peek(statusFile), <<"TITLE", Tab>>)
    /\ HasPrefix(Peek(statusFile), <<"OpenVPN STATISTICS">>)
    /\ Returns("client status not supported in this fork", ch, 0)
    /\ UNCHANGED <<scrapers, corpus, geoCache, geoIP, lookups, statusFile, ioFailed, scanned, separator,
                   headersFound, numberConnectedClient, recordedMetrics, rowLog>>

\* collectStatusFromReader, any other beginning
DetectUnexpected ==
    /\ pc = "detect"
    /\ ~HasPrefix(Peek(statusFile), <<"TITLE", Comma>>)
    /\ ~HasPrefix(Peek(statusFile), <<"TITLE", Tab>>)
    /\ ~HasPrefix(Peek(statusFile), <<"OpenVPN STATISTICS">>)
    /\ Returns("unexpected file contents", ch, 0)
    /\ UNCHANGED <<scrapers, corpus, geoCache, geoIP, lookups, statusFile, ioFailed, scanned, separator,
                   headersFound, numberConnectedClient, recordedMetrics, rowLog>>

\* scanner.Scan() delivers line l: either a line already read by Peek or the
\* next line of the file
Delivered(l) ==
    /\ pc = "scan"
    /\ \/ scanned < Len(statusFile) /\ l = statusFile[scanned + 1]
       \/ scanned = Len(statusFile) /\ ~ioFailed /\ Len(statusFile) < MaxLines /\ l \in Corpus[corpus]
    /\ statusFile' = IF scanned < Len(statusFile) THEN statusFile ELSE Append(statusFile, l)
    /\ scanned' = scanned + 1

AllLines == FirstLines \cup Lines

\* "END" alone: stats footer
ScanEnd ==
    \E l \in AllLines :
        /\ Delivered(l)
        /\ LineKind(Split(l, separator)) = "END"
        /\ UNCHANGED <<scrapers, corpus, pc, geoCache, geoIP, lookups, ioFailed, separator, headersFound,
                       numberConnectedClient, recordedMetrics, ch, err, rowLog>>

\* "GLOBAL_STATS": ignored
ScanGlobalStats ==
    \E l \in AllLines :
        /\ Delivered(l)
        /\ LineKind(Split(l, separator)) = "GLOBAL_STATS"
        /\ UNCHANGED <<scrapers, corpus, pc, geoCache, geoIP, lookups, ioFailed, separator, headersFound,
                       numberConnectedClient, recordedMetrics, ch, err, rowLog>>

\* HEADER storing its columns for both record types, whatever fields[1] names
ScanHeaderAnyType ==
    \E l \in AllLines :
        /\ Delivered(l)
        /\ LET fields == Split(l, separator)
           IN  /\ LineKind(fields) = "HEADER"
               /\ headersFound' = MapPut(MapPut(headersFound, S("CLIENT_LIST"),
                                                SubSeq(fields, 3, Len(fields))),
                                         S("ROUTING_TABLE"), SubSeq(fields, 3, Len(fields)))
        /\ UNCHANGED <<scrapers, corpus, pc, geoCache, geoIP, lookups, ioFailed, separator,
                       numberConnectedClient, recordedMetrics, ch, err, rowLog>>

\* "HEADER" with more than 2 fields: headersFound[fields[1]] = fields[2:]
ScanHeader ==
    \E l \in AllLines :
        /\ Delivered(l)
        /\ LET fields == Split(l, separator)
           IN  /\ LineKind(fields) = "HEADER"
               /\ headersFound' = MapPut(headersFound, fields[2], SubSeq(fields, 3, Len(fields)))
        /\ UNCHANGED <<scrapers, corpus, pc, geoCache, geoIP, lookups, ioFailed, separator,
                       numberConnectedClient, recordedMetrics, ch, err, rowLog>>

\* "TIME" with 3 fields: status_update_time_seconds, or the ParseFloat error
ScanTime ==
    \E l \in AllLines :
        /\ Delivered(l)
        /\ LET fields == Split(l, separator)
               timeStartStats == ParseFloat(fields[3])
           IN  /\ LineKind(fields) = "TIME"
               /\ IF ~timeStartStats.ok
                  THEN Returns("ParseFloat", ch, scanned + 1)
                  ELSE /\ ch' = Append(ch, Metric("openvpn_status_update_time_seconds", "gauge",
                                                  timeStartStats.value, ServerLabels(geoIP),
                                                  scanned + 1))
                       /\ UNCHANGED <<scrapers, corpus, pc, err>>
        /\ UNCHANGED <<scrapers, corpus, geoCache, geoIP, lookups, ioFailed, separator, headersFound,
                       numberConnectedClient, recordedMetrics, rowLog>>

\* "TITLE" with 2 fields: version number, ignored
ScanTitle ==
    \E l \in AllLines :
        /\ Delivered(l)
        /\ LineKind(Split(l, separator)) = "TITLE"
        /\ UNCHANGED <<scrapers, corpus, pc, geoCache, geoIP, lookups, ioFailed, separator, headersFound,
                       numberConnectedClient, recordedMetrics, ch, err, rowLog>>

\* an unknown first field skipped like GLOBAL_STATS
ScanUnsupportedIgnored ==
    \E l \in AllLines :
        /\ Delivered(l)
        /\ LineKind(Split(l, separator)) = "UNSUPPORTED"
        /\ UNCHANGED <<scrapers, corpus, pc, geoCache, geoIP, lookups, ioFailed, separator, headersFound,
                       numberConnectedClient, recordedMetrics, ch, err, rowLog>>

\* any other first field: unsupported key
ScanUnsupported ==
    \E l \in AllLines :
        /\ Delivered(l)
        /\ LineKind(Split(l, separator)) = "UNSUPPORTED"
        /\ Returns("unsupported key", ch, scanned + 1)
        /\ UNCHANGED <<scrapers, corpus, geoCache, geoIP, lookups, ioFailed, separator, headersFound,
                       numberConnectedClient, recordedMetrics, rowLog>>

\* CLIENT_LIST / ROUTING_TABLE without a HEADER found for that type
ScanRowNoHeader ==
    \E l \in AllLines :
        /\ Delivered(l)
        /\ LET fields == Split(l, separator)
           IN  /\ LineKind(fields) = "ROW"
               /\ fields[1] \notin DOMAIN headersFound
        /\ Returns("should be preceded by HEADERS", ch, scanned + 1)
        /\ UNCHANGED <<scrapers, corpus, geoCache, geoIP, lookups, ioFailed, separator, headersFound,
                       numberConnectedClient, recordedMetrics, rowLog>>

\* CLIENT_LIST / ROUTING_TABLE whose field count is not len(columnNames)+1
ScanRowColumnMismatch ==
    \E l \in AllLines :
        /\ Delivered(l)
        /\ LET fields == Split(l, separator)
           IN  /\ LineKind(fields) = "ROW"
               /\ fields[1] \in DOMAIN headersFound
               /\ Len(fields) # Len(headersFound[fields[1]]) + 1
        /\ Returns("HEADER describes a different number of columns", ch, scanned + 1)
        /\ UNCHANGED <<scrapers, corpus, geoCache, geoIP, lookups, ioFailed, separator, headersFound,
                       numberConnectedClient, recordedMetrics, rowLog>>

\* the skip test without its empty-string half
SkipsClientUndefOnly(columnValues) == columnValues[S("Common Name")] = S("UNDEF")

\* the row's Common Name is "UNDEF" or "": continue
SkipsClient(columnValues) ==
    \/ columnValues[S("Common Name")] = S("UNDEF")
    \/ columnValues[S("Common Name")] = EmptyString

ScanRowSkipped ==
    \E l \in AllLines :
        /\ Delivered(l)
        /\ LET fields == Split(l, separator)
           IN  /\ LineKind(fields) = "ROW"
               /\ fields[1] \in DOMAIN headersFound
               /\ Len(fields) = Len(headersFound[fields[1]]) + 1
               /\ SkipsClient(ColumnValues(openvpnServerHeaders[fields[1]],
                                           headersFound[fields[1]], fields))
               /\ rowLog' = Append(rowLog,
                      [line |-> scanned + 1, rtype |-> fields[1],
                       columnNames |-> headersFound[fields[1]], dropped |-> TRUE,
                       resolved |-> FALSE, labels |-> << >>, columns |-> {}])
        /\ UNCHANGED <<scrapers, corpus, pc, geoCache, geoIP, lookups, ioFailed, separator, headersFound,
                       numberConnectedClient, recordedMetrics, ch, err>>

\* if fields[0] == "CLIENT_LIST" { numberConnectedClient++ }, counting every row
CountClientAnyRow(rtype, n) == n + 1

\* if fields[0] == "CLIENT_LIST" { numberConnectedClient++ }
CountClient(rtype, n) == IF rtype = S("CLIENT_LIST") THEN n + 1 ELSE n

\* the row has no Real Address: getGeo is not called
NotResolved(cache) == [geo |-> ZeroGeoIP, failed |-> TRUE, cache |-> cache, looked |-> FALSE]

\* CLIENT_LIST / ROUTING_TABLE row that is counted, resolved and exported
ScanRow ==
    \E l \in AllLines :
        /\ Delivered(l)
        /\ LET fields == Split(l, separator)
           IN  /\ LineKind(fields) = "ROW"
               /\ fields[1] \in DOMAIN headersFound
               /\ Len(fields) = Len(headersFound[fields[1]]) + 1
               /\ LET header == openvpnServerHeaders[fields[1]]
                      declared == ColumnValues(header, headersFound[fields[1]], fields)
                      hasAddress == declared[S("Real Address")] # EmptyString
                  IN  /\ ~SkipsClient(declared)
                      /\ numberConnectedClient' = CountClient(fields[1], numberConnectedClient)
                      /\ \E r \in (IF hasAddress
                                   THEN getGeo(AddressOf(declared[S("Real Address")]), geoCache)
                                   ELSE {NotResolved(geoCache)}) :
                            LET columnValues == IF r.failed THEN declared
                                                ELSE GeoColumns(declared, r.geo, geoIP)
                                labels == RowLabels(geoIP, header, columnValues)
                                out == ExportMetrics(header.Metrics, 1, columnValues, labels,
                                                     scanned + 1,
                                                     [recorded |-> recordedMetrics,
                                                      sent |-> << >>, err |-> "nil"])
                            IN  /\ geoCache' = r.cache
                                /\ lookups' = IF r.looked
                                              THEN Append(lookups,
                                                          AddressOf(declared[S("Real Address")]))
                                              ELSE lookups
                                /\ recordedMetrics' = out.recorded
                                /\ IF out.err = "nil"
                                   THEN /\ ch' = ch \o out.sent
                                        /\ UNCHANGED <<scrapers, corpus, pc, err>>
                                   ELSE Returns(out.err, ch \o out.sent, scanned + 1)
                                /\ rowLog' = Append(rowLog,
                                       [line |-> scanned + 1, rtype |-> fields[1],
                                        columnNames |-> headersFound[fields[1]],
                                        dropped |-> FALSE, resolved |-> ~r.failed,
                                        labels |-> labels, columns |-> DOMAIN columnValues])
        /\ UNCHANGED <<scrapers, corpus, geoIP, ioFailed, separator, headersFound>>

\* the tuple sent after the loop, with the update-time descriptor in place of the client-count one
ConnectedClientsWrongDesc ==
    Metric("openvpn_status_update_time_seconds", "gauge", numberConnectedClient,
           ServerLabels(geoIP), scanned)

\* the server_connected_clients tuple sent after the loop
ConnectedClients ==
    Metric("openvpn_server_connected_clients", "gauge", numberConnectedClient,
           ServerLabels(geoIP), scanned)

\* scanner.Scan() returns false at end of file: the tuple is sent, scanner.Err() is nil
ScanEOF ==
    /\ pc = "scan"
    /\ scanned = Len(statusFile)
    /\ ~ioFailed
    /\ Returns("nil", Append(ch, ConnectedClients), scanned)
    /\ UNCHANGED <<scrapers, corpus, geoCache, geoIP, lookups, statusFile, ioFailed, scanned, separator,
                   headersFound, numberConnectedClient, recordedMetrics, rowLog>>

\* scanner.Scan() returns false on a read error (or a line over the scanner's
\* token limit): the loop ends the same way and scanner.Err() is returned
ScanIOError ==
    /\ pc = "scan"
    /\ scanned = Len(statusFile)
    /\ ~ioFailed
    /\ ioFailed' = TRUE
    /\ Returns("read error", Append(ch, ConnectedClients), scanned)
    /\ UNCHANGED <<scrapers, corpus, geoCache, geoIP, lookups, statusFile, scanned, separator,
                   headersFound, numberConnectedClient, recordedMetrics, rowLog>>

Next ==
    \/ NewOpenVPNExporter
    \/ CollectOpenError
    \/ CollectOpen
    \/ DetectServerV2
    \/ DetectServerV3
    \/ DetectClient
    \/ DetectUnexpected
    \/ ScanEnd
    \/ ScanGlobalStats
    \/ ScanHeader
    \/ ScanTime
    \/ ScanTitle
    \/ ScanUnsupported
    \/ ScanRowNoHeader
    \/ ScanRowColumnMismatch
    \/ ScanRowSkipped
    \/ ScanRow
    \/ ScanEOF
    \/ ScanIOError

Spec == Init /\ [][Next]_vars

(***************************************************************************)
(* Concurrent scrapes.  The registry calls Collect once per scrape request *)
(* and simultaneous requests run it in separate goroutines.  Everything a  *)
(* Collect call touches is local to the call except the map geoCache (and  *)
(* geoIP, which is only read), so a call is followed here through its      *)
(* getGeo calls alone: one per row that carries a Real Address.  The map   *)
(* assignment of getGeo is not atomic; a map access that overlaps it is a  *)
(* data race, whose outcomes are the runtime's fatal error or an access    *)
(* that sees the map before or after the assignment.                       *)
(***************************************************************************)
\* the other goroutines that are inside the assignment geoCache[address] = geo
Writers(g) == {h \in Scrapers \ {g} : scrapers[h].pc = "writing"}

\* what a read by g of geoCache can see: the map itself and, while another
\* goroutine is inside its assignment, the map with that entry already in
CacheViews(g) ==
    {geoCache} \cup {MapPut(geoCache, scrapers[h].address, scrapers[h].geo) : h \in Writers(g)}

OtherVars ==
    <<pc, geoIP, corpus, statusFile, ioFailed, scanned, separator, headersFound,
      numberConnectedClient, recordedMetrics, ch, err, rowLog>>

\* the runtime detects the concurrent map access and throws: the process ends
Fatal == scrapers' = [h \in Scrapers |-> [scrapers[h] EXCEPT !.pc = "fatal"]]

\* Collect is called for a scrape request
GoCollect(g) ==
    /\ pc = "idle"
    /\ scrapers[g].pc = "idle"
    /\ scrapers[g].resolves < MaxResolves
    /\ scrapers' = [scrapers EXCEPT ![g].pc = "rows"]
    /\ UNCHANGED <<geoCache, lookups>>
    /\ UNCHANGED OtherVars

\* the scanner is at its end (or the call fails): Collect returns
GoReturn(g) ==
    /\ scrapers[g].pc = "rows"
    /\ scrapers' = [scrapers EXCEPT ![g].pc = "idle"]
    /\ UNCHANGED <<geoCache, lookups>>
    /\ UNCHANGED OtherVars

\* getGeo(address) for the next row with a Real Address: the read
\* geoCache[address] finds an entry and returns it
GeoCheckHit(g) ==
    /\ scrapers[g].pc = "rows"
    /\ scrapers[g].resolves < MaxResolves
    /\ \E address \in ScrapedAddresses, view \in CacheViews(g) :
          /\ address \in DOMAIN view
          /\ scrapers' = [scrapers EXCEPT ![g].address = address,
                                          ![g].geo = view[address],
                                          ![g].resolves = @ + 1]
    /\ UNCHANGED <<geoCache, lookups>>
    /\ UNCHANGED OtherVars

\* the read geoCache[address] finds no entry: getGeo goes on to the lookup
GeoCheckMiss(g) ==
    /\ scrapers[g].pc = "rows"
    /\ scrapers[g].resolves < MaxResolves
    /\ \E address \in ScrapedAddresses, view \in CacheViews(g) :
          /\ address \notin DOMAIN view
          /\ scrapers' = [scrapers EXCEPT ![g].pc = "get",
                                          ![g].address = address,
                                          ![g].geo = ZeroGeoIP,
                                          ![g].resolves = @ + 1]
    /\ UNCHANGED <<geoCache, lookups>>
    /\ UNCHANGED OtherVars

\* the read geoCache[address] overlaps another goroutine's assignment and the
\* runtime throws
GeoCheckFatal(g) ==
    /\ scrapers[g].pc = "rows"
    /\ scrapers[g].resolves < MaxResolves
    /\ Writers(g) # {}
    /\ Fatal
    /\ UNCHANGED <<geoCache, lookups>>
    /\ UNCHANGED OtherVars

\* http.Get, ioutil.ReadAll or json.Unmarshal fails: getGeo returns the error
GeoLookupError(g) ==
    /\ scrapers[g].pc = "get"
    /\ lookups' = Append(lookups, scrapers[g].address)
    /\ scrapers' = [scrapers EXCEPT ![g].pc = "rows"]
    /\ UNCHANGED geoCache
    /\ UNCHANGED OtherVars

\* the lookup succeeds: geo holds the decoded answer and its geohash
GeoLookup(g) ==
    /\ scrapers[g].pc = "get"
    /\ lookups' = Append(lookups, scrapers[g].address)
    /\ LET body == IpApiAnswer(scrapers[g].address)
       IN  scrapers' = [scrapers EXCEPT
                           ![g].pc = "write",
                           ![g].geo = [body EXCEPT !.Geohash = GeohashEncode(body.Lat, body.Lon)]]
    /\ UNCHANGED geoCache
    /\ UNCHANGED OtherVars

\* geoCache[address] = geo begins
GeoWriteBegin(g) ==
    /\ scrapers[g].pc = "write"
    /\ scrapers' = [scrapers EXCEPT ![g].pc = "writing"]
    /\ UNCHANGED <<geoCache, lookups>>
    /\ UNCHANGED OtherVars

\* geoCache[address] = geo begins while another goroutine is inside its own
\* assignment and the runtime throws
GeoWriteFatal(g) ==
    /\ scrapers[g].pc = "write"
    /\ Writers(g) # {}
    /\ Fatal
    /\ UNCHANGED <<geoCache, lookups>>
    /\ UNCHANGED OtherVars

\* getGeo returning its result without the assignment to geoCache
GeoWriteEndNoStore(g) ==
    /\ scrapers[g].pc = "writing"
    /\ scrapers' = [scrapers EXCEPT ![g].pc = "rows"]
    /\ UNCHANGED <<geoCache, lookups>>
    /\ UNCHANGED OtherVars

\* geoCache[address] = geo is complete and getGeo returns geo
GeoWriteEnd(g) ==
    /\ scrapers[g].pc = "writing"
    /\ geoCache' = MapPut(geoCache, scrapers[g].address, scrapers[g].geo)
    /\ scrapers' = [scrapers EXCEPT ![g].pc = "rows"]
    /\ UNCHANGED lookups
    /\ UNCHANGED OtherVars

NextGeo ==
    \/ NewOpenVPNExporter
    \/ \E g \in Scrapers : GoCollect(g)
    \/ \E g \in Scrapers : GoReturn(g)
    \/ \E g \in Scrapers : GeoCheckHit(g)
    \/ \E g \in Scrapers : GeoCheckMiss(g)
    \/ \E g \in Scrapers : GeoCheckFatal(g)
    \/ \E g \in Scrapers : GeoLookupError(g)
    \/ \E g \in Scrapers : GeoLookup(g)
    \/ \E g \in Scrapers : GeoWriteBegin(g)
    \/ \E g \in Scrapers : GeoWriteFatal(g)
    \/ \E g \in Scrapers : GeoWriteEnd(g)

SpecGeo == Init /\ [][NextGeo]_vars

(***************************************************************************)
(* Properties                                                              *)
(***************************************************************************)
\* positions of ch holding a tuple of descriptor d
TuplesOf(d) == {i \in 1..Len(ch) : ch[i].desc = d}

\* fields of the i-th line read, under the separator the detector chose
FieldsAt(i) == Split(statusFile[i], separator)

\* line j is a HEADER line naming record type t
IsHeaderFor(j, t) ==
    /\ FieldsAt(j)[1] = S("HEADER")
    /\ Len(FieldsAt(j)) >= 2
    /\ FieldsAt(j)[2] = t

\* the columns declared by the last HEADER line for t before line i
DeclaredBefore(i, t) ==
    LET j == CHOOSE j \in 1..(i-1) :
                 /\ IsHeaderFor(j, t)
                 /\ \A k \in (j+1)..(i-1) : ~IsHeaderFor(k, t)
    IN  SubSeq(FieldsAt(j), 3, Len(FieldsAt(j)))

\* the value a row's fields give to column c under the declared columns cols,
\* the empty string when cols does not declare c
ValueOf(fields, cols, c) ==
    IF \E i \in 1..Len(cols) : cols[i] = c
    THEN fields[1 + CHOOSE i \in 1..Len(cols) :
                        cols[i] = c /\ \A j \in (i+1)..Len(cols) : cols[j] # c]
    ELSE EmptyString

\* C1: every Collect call sends exactly one up tuple, after all other tuples of
\* the scrape; its value is 1 exactly when the scrape returned no error and 0
\* otherwise, in particular 0 for a missing or unreadable file, a format error,
\* a structural error or a read error.
C1_UpOnceLastAndTruthful ==
    /\ pc # "done" => TuplesOf("openvpn_up") = {}
    /\ pc = "done" =>
          /\ TuplesOf("openvpn_up") = {Len(ch)}
          /\ ch[Len(ch)].value \in {0, 1}
          /\ ch[Len(ch)].value = 1 <=> err = "nil"
          /\ (ioFailed \/ statusFile = << >> \/ separator = "") => ch[Len(ch)].value = 0
          /\ (scanned >= 1 /\ LineKind(FieldsAt(scanned)) = "UNSUPPORTED") => ch[Len(ch)].value = 0

\* C1 witness: a finished scrape that sent row tuples and then up = 1
C1_Witness ==
    /\ pc = "done"
    /\ Len(ch) >= 3
    /\ ch[Len(ch)].desc = "openvpn_up"
    /\ ch[Len(ch)].value = 1

\* C2: when the reducer reaches the end of the stream without error it has sent
\* the server_connected_clients tuple exactly once, as its last tuple, and with
\* value 0 when the snapshot holds no CLIENT_LIST row.
C2_ClientCountOnceLast ==
    (pc = "done" /\ err = "nil") =>
        LET last == Len(ch) - 1
        IN  /\ TuplesOf("openvpn_server_connected_clients") = {last}
            /\ \A k \in 1..last : ch[k].desc # "openvpn_up"
            /\ (\A i \in 1..Len(statusFile) : FieldsAt(i)[1] # S("CLIENT_LIST"))
                  => ch[last].value = 0

\* C2 witness: the reducer returned nil for a snapshot without client rows that
\* still produced a tuple before the client count
C2_Witness ==
    /\ pc = "done"
    /\ err = "nil"
    /\ Len(ch) >= 3
    /\ \A i \in 1..Len(statusFile) : FieldsAt(i)[1] # S("CLIENT_LIST")
    /\ ch[Len(ch) - 1].desc = "openvpn_server_connected_clients"
    /\ ch[Len(ch) - 1].value = 0

\* the row with these fields, read against the declared columns cols, has a
\* Common Name that is absent from cols, empty or "UNDEF"
Anonymous(fields, cols) ==
    \/ S("Common Name") \notin Range(cols)
    \/ ValueOf(fields, cols, S("Common Name")) = EmptyString
    \/ ValueOf(fields, cols, S("Common Name")) = S("UNDEF")

\* the step delivers a CLIENT_LIST / ROUTING_TABLE row that matches its HEADER
\* and is anonymous
DeliversAnonymousRow ==
    /\ pc = "scan"
    /\ scanned' = scanned + 1
    /\ LET fields == Split(statusFile'[scanned'], separator)
       IN  /\ fields[1] \in {S("CLIENT_LIST"), S("ROUTING_TABLE")}
           /\ fields[1] \in DOMAIN headersFound
           /\ Len(fields) = Len(headersFound[fields[1]]) + 1
           /\ Anonymous(fields, headersFound[fields[1]])

\* C3: a CLIENT_LIST or ROUTING_TABLE row whose Common Name is empty, not among
\* the HEADER's columns or "UNDEF" is dropped without error: the client counter,
\* the geo lookups and cache, the tuples sent and the dedup sets are unchanged
\* and the reducer goes on to the next line.
C3_AnonymousRowDropped ==
    [][DeliversAnonymousRow =>
          /\ pc' = "scan"
          /\ err' = "nil"
          /\ UNCHANGED <<numberConnectedClient, lookups, geoCache, ch, recordedMetrics>>]_vars

\* C3 witness: rows were dropped for each of the three reasons, one of them
\* carrying a Real Address, and the scrape went on to succeed
C3_Witness ==
    /\ pc = "done"
    /\ err = "nil"
    /\ \E i \in 1..Len(rowLog) :
          /\ rowLog[i].dropped
          /\ S("Real Address") \in Range(rowLog[i].columnNames)
          /\ ValueOf(FieldsAt(rowLog[i].line), rowLog[i].columnNames, S("Common Name")) = S("UNDEF")
    /\ \E i \in 1..Len(rowLog) :
          /\ rowLog[i].dropped
          /\ \/ S("Common Name") \notin Range(rowLog[i].columnNames)
             \/ ValueOf(FieldsAt(rowLog[i].line), rowLog[i].columnNames, S("Common Name")) = EmptyString

\* the CLIENT_LIST lines of the snapshot whose Common Name is neither empty nor "UNDEF"
NamedClientRows ==
    {i \in 1..Len(statusFile) :
        /\ FieldsAt(i)[1] = S("CLIENT_LIST")
        /\ ~Anonymous(FieldsAt(i), DeclaredBefore(i, S("CLIENT_LIST")))}

\* C4: in a scrape that ends without error the server_connected_clients value
\* is the number of CLIENT_LIST rows of the snapshot whose Common Name is neither
\* empty nor "UNDEF"; ROUTING_TABLE rows do not count and rows suppressed as
\* duplicates do.
C4_ClientCountValue ==
    (pc = "done" /\ err = "nil") =>
        \E k \in 1..Len(ch) :
            /\ ch[k].desc = "openvpn_server_connected_clients"
            /\ ch[k].value = Cardinality(NamedClientRows)

\* C4 witness: two named client rows counted although only one received-bytes
\* tuple was sent, the second row being a duplicate
C4_Witness ==
    /\ pc = "done"
    /\ err = "nil"
    /\ Cardinality(NamedClientRows) = 2
    /\ Cardinality(TuplesOf("openvpn_server_client_received_bytes_total")) = 1
    /\ \E k \in 1..Len(ch) :
          ch[k].desc = "openvpn_server_connected_clients" /\ ch[k].value = 2

\* some HEADER line for record type t precedes line i
HeaderSeenBefore(i, t) == \E j \in 1..(i-1) : IsHeaderFor(j, t)

\* C5: a CLIENT_LIST or ROUTING_TABLE row is accepted only if a HEADER line for
\* its own record type came earlier in the snapshot; a row without one is where
\* the reducer returns its "should be preceded by HEADERS" error, whatever
\* HEADER lines for the other type came before.
C5_RowNeedsOwnHeader ==
    /\ \A r \in 1..Len(rowLog) : HeaderSeenBefore(rowLog[r].line, rowLog[r].rtype)
    /\ \A i \in 1..scanned :
          (/\ FieldsAt(i)[1] \in {S("CLIENT_LIST"), S("ROUTING_TABLE")}
           /\ ~HeaderSeenBefore(i, FieldsAt(i)[1]))
          => /\ i = scanned
             /\ pc = "done"
             /\ err = "should be preceded by HEADERS"
             /\ \A k \in 1..Len(ch) : ch[k].line = i => ch[k].desc = "openvpn_up"

\* C5 witness: a row refused for want of its own HEADER although a HEADER for
\* the other record type, with as many columns as the row needs, came before it
C5_Witness ==
    /\ err = "should be preceded by HEADERS"
    /\ scanned >= 3
    /\ FieldsAt(scanned)[1] = S("CLIENT_LIST")
    /\ \E j \in 1..(scanned - 1) :
          /\ IsHeaderFor(j, S("ROUTING_TABLE"))
          /\ Len(FieldsAt(j)) - 2 = Len(FieldsAt(scanned)) - 1

\* the metric fields of record type t, as a set
MetricsOf(t) == Range(openvpnServerHeaders[t].Metrics)

\* line i is a structural error of one of the four kinds: a row without HEADER,
\* a row whose field count is not the declared column count + 1, an unknown
\* leading keyword, or an unparsable numeric field (the TIME value, or a row's
\* declared metric column when nothing was recorded yet for any of its metrics)
StructuralError(i) ==
    LET fields == FieldsAt(i)
        t == fields[1]
    IN  \/ /\ t \in DOMAIN openvpnServerHeaders
           /\ ~HeaderSeenBefore(i, t)
        \/ /\ t \in DOMAIN openvpnServerHeaders
           /\ HeaderSeenBefore(i, t)
           /\ Len(fields) # Len(DeclaredBefore(i, t)) + 1
        \/ t \notin {S("END"), S("GLOBAL_STATS"), S("HEADER"), S("TIME"), S("TITLE"),
                     S("CLIENT_LIST"), S("ROUTING_TABLE")}
        \/ /\ t = S("TIME")
           /\ Len(fields) = 3
           /\ ~ParseFloat(fields[3]).ok
        \/ /\ t \in DOMAIN openvpnServerHeaders
           /\ HeaderSeenBefore(i, t)
           /\ Len(fields) = Len(DeclaredBefore(i, t)) + 1
           /\ ~Anonymous(fields, DeclaredBefore(i, t))
           /\ \A m \in MetricsOf(t) : \A k \in 1..Len(ch) : ch[k].desc = m.Desc => ch[k].line = i
           /\ \E m \in MetricsOf(t) :
                 /\ m.Column \in Range(DeclaredBefore(i, t))
                 /\ ~ParseFloat(ValueOf(fields, DeclaredBefore(i, t), m.Column)).ok

\* C6: on a structural error the reducer stops at that line: the scrape returns
\* an error (up = 0 is the last tuple), no server_connected_clients tuple is
\* sent, every tuple sent for that line carries a value parsed from a numeric
\* field of the line, no further line is read and nothing further is sent, and
\* the tuples sent before stay as sent.
C6_StructuralErrorStops ==
    /\ []((scanned >= 1 /\ StructuralError(scanned)) =>
            /\ pc = "done"
            /\ err \notin {"nil", "read error"}
            /\ TuplesOf("openvpn_server_connected_clients") = {}
            /\ ch[Len(ch)].desc = "openvpn_up"
            /\ ch[Len(ch)].value = 0
            /\ \A k \in 1..(Len(ch) - 1) :
                  ch[k].line = scanned =>
                      \E m \in MetricsOf(FieldsAt(scanned)[1]) :
                          LET text == ValueOf(FieldsAt(scanned),
                                              DeclaredBefore(scanned, FieldsAt(scanned)[1]),
                                              m.Column)
                          IN  /\ ch[k].desc = m.Desc
                              /\ ParseFloat(text).ok
                              /\ ch[k].value = ParseFloat(text).value)
    /\ [][/\ Len(ch') >= Len(ch)
          /\ SubSeq(ch', 1, Len(ch)) = ch
          /\ (scanned >= 1 /\ StructuralError(scanned)) => UNCHANGED <<statusFile, scanned, ch>>]_vars

\* C6 witness: a row failed on its second metric field after its first was sent,
\* with tuples of earlier lines still in place and up = 0 sent last
C6_Witness ==
    /\ pc = "done"
    /\ err = "ParseFloat"
    /\ StructuralError(scanned)
    /\ \E k \in 1..Len(ch) : ch[k].line < scanned
    /\ \E k \in 1..(Len(ch) - 1) : ch[k].line = scanned
    /\ ch[Len(ch)].value = 0

\* C7: a read error on the underlying stream is handled like a structural
\* error: the reducer returns the error without sending any further tuple, in
\* particular no server_connected_clients tuple.
C7_ReadErrorSendsNothing ==
    err = "read error" => TuplesOf("openvpn_server_connected_clients") = {}

\* C8: format detection is a prefix match on the snapshot: "TITLE," runs the
\* reducer with the comma separator, "TITLE<TAB>" runs it with the tab
\* separator, and "OpenVPN STATISTICS" or any other beginning (an empty stream
\* included) returns an error before any line is processed, so that no tuple
\* but up = 0 is sent.
C8_FormatDetection ==
    (pc \in {"scan", "done"} /\ err # "open") =>
        LET buf == Peek(statusFile)
        IN  IF HasPrefix(buf, <<"TITLE", Comma>>)
            THEN /\ separator = Comma
                 /\ pc = "done" => scanned >= 1
            ELSE IF HasPrefix(buf, <<"TITLE", Tab>>)
            THEN /\ separator = Tab
                 /\ pc = "done" => scanned >= 1
            ELSE /\ pc = "done"
                 /\ err = IF HasPrefix(buf, <<"OpenVPN STATISTICS">>)
                          THEN "client status not supported in this fork"
                          ELSE "unexpected file contents"
                 /\ scanned = 0
                 /\ headersFound = [t \in {} |-> << >>]
                 /\ rowLog = << >>
                 /\ Len(ch) = 1
                 /\ ch[1].desc = "openvpn_up"
                 /\ ch[1].value = 0

\* C8 witness: a tab-separated snapshot whose HEADER and row were split on tabs,
\* giving a received-bytes tuple, and that ended without error
C8_Witness ==
    /\ pc = "done"
    /\ err = "nil"
    /\ HasPrefix(Peek(statusFile), <<"TITLE", Tab>>)
    /\ TuplesOf("openvpn_server_client_received_bytes_total") # {}

\* pairs of logged rows, the first before the second, that were not dropped,
\* have the same record type and literally identical label vectors
SameLabelRows ==
    {p \in (1..Len(rowLog)) \X (1..Len(rowLog)) :
        /\ p[1] < p[2]
        /\ ~rowLog[p[1]].dropped
        /\ ~rowLog[p[2]].dropped
        /\ rowLog[p[1]].rtype = rowLog[p[2]].rtype
        /\ rowLog[p[1]].labels = rowLog[p[2]].labels}

\* tuples the reducer sent while processing line n
SentAtLine(n) == {k \in 1..Len(ch) : ch[k].line = n /\ ch[k].desc \in MetricDescs}

\* C9 as stated: of two non-dropped rows of one record type with identical
\* label vectors, the later one sends no tuple for any metric field and does
\* not fail the scrape.
C9_LaterRowSendsNothing ==
    \A p \in SameLabelRows :
        /\ SentAtLine(rowLog[p[2]].line) = {}
        /\ ~(err = "ParseFloat" /\ scanned = rowLog[p[2]].line)

\* C9 amended: of two non-dropped rows of one record type with identical label
\* vectors, the later one sends no tuple for any metric field whose source
\* column was present in the earlier row's merged column mapping, and it does
\* not fail the scrape when every metric column it has was present for the
\* earlier row.
C9_LaterRowSuppressed ==
    \A p \in SameLabelRows :
        LET first == rowLog[p[1]]
            later == rowLog[p[2]]
            metrics == MetricsOf(later.rtype)
        IN  /\ \A m \in metrics :
                  m.Column \in first.columns =>
                      \A k \in SentAtLine(later.line) : ch[k].desc # m.Desc
            /\ (\A m \in metrics : m.Column \in later.columns => m.Column \in first.columns)
                  => ~(err = "ParseFloat" /\ scanned = later.line)

\* C9 witness: a row repeating the label vector of an earlier row that sent its
\* received-bytes tuple, itself with a non-numeric Bytes Received, in a scrape
\* that went on to end without error
C9_Witness ==
    /\ pc = "done"
    /\ err = "nil"
    /\ \E p \in SameLabelRows :
          /\ S("Bytes Received") \in rowLog[p[1]].columns
          /\ SentAtLine(rowLog[p[1]].line) # {}
          /\ ~ParseFloat(ValueOf(FieldsAt(rowLog[p[2]].line), rowLog[p[2]].columnNames,
                                 S("Bytes Received"))).ok

\* the label columns that a successful resolution overwrites
GeoLabelColumns == {S("Geohash"), S("City"), S("Country"), S("Region")}

\* the value the resolved location g gives to geo label column c
ResolvedLabel(g, c) ==
    IF c = S("Geohash") THEN g.Geohash
    ELSE LET v == IF c = S("City") THEN g.City
                  ELSE IF c = S("Country") THEN g.CountryName
                  ELSE g.RegionName
         IN  IF v = EmptyString THEN S("Unknown") ELSE v

\* the label vector of tuple k is laid out as the row r it came from requires;
\* synthesized says whether resolved geo columns are allowed for
LabelLayout(k, r, synthesized) ==
    LET cols == openvpnServerHeaders[r.rtype].LabelColumns
        labels == ch[k].labels
        fields == FieldsAt(r.line)
    IN  /\ Len(labels) = 5 + Len(cols)
        /\ Len(labels) = IF r.rtype = S("CLIENT_LIST") THEN 14 ELSE 13
        /\ SubSeq(labels, 1, 5) = <<geoIP.Geohash, geoIP.City, geoIP.CountryName,
                                    geoIP.RegionName, geoIP.Ip>>
        /\ \A c \in 1..Len(cols) :
              IF synthesized /\ r.resolved /\ cols[c] \in GeoLabelColumns
              THEN labels[5 + c] =
                      ResolvedLabel(geoCache[Split(ValueOf(fields, r.columnNames,
                                                           S("Real Address")), Colon)[1]],
                                    cols[c])
              ELSE labels[5 + c] = ValueOf(fields, r.columnNames, cols[c])

\* C10 as stated: every per-row tuple's label vector is the five server labels
\* followed by the record type's label columns in schema order (14 values for
\* CLIENT_LIST, 13 for ROUTING_TABLE), each column carrying the row's value for
\* it and the empty string when the HEADER did not declare it.
C10_LabelVectorUndeclaredEmpty ==
    \A k \in 1..Len(ch) :
        ch[k].desc \in MetricDescs =>
            \E r \in 1..Len(rowLog) :
                rowLog[r].line = ch[k].line /\ LabelLayout(k, rowLog[r], FALSE)

\* C10 amended: every per-row tuple's label vector is the five server labels
\* (present even when empty) followed by the record type's label columns in
\* schema order, 14 values for CLIENT_LIST and 13 for ROUTING_TABLE whatever
\* the HEADER declared; a column the HEADER did not declare contributes the
\* empty string, except that when the row's Real Address was resolved the
\* Geohash, City, Country and Region columns carry the resolved values
\* ("Unknown" for an empty city, country or region).
C10_LabelVectorLayout ==
    \A k \in 1..Len(ch) :
        ch[k].desc \in MetricDescs =>
            \E r \in 1..Len(rowLog) :
                rowLog[r].line = ch[k].line /\ LabelLayout(k, rowLog[r], TRUE)

\* C10 witness: a 14-label tuple of a resolved CLIENT_LIST row with an
\* "Unknown" city and an undeclared, empty Username, next to a 13-label
\* ROUTING_TABLE tuple, under empty server labels
C10_Witness ==
    /\ geoIP.Geohash = EmptyString
    /\ \E k \in 1..Len(ch) :
          /\ ch[k].desc = "openvpn_server_client_received_bytes_total"
          /\ Len(ch[k].labels) = 14
          /\ ch[k].labels[12] = S("Unknown")
          /\ ch[k].labels[10] = EmptyString
    /\ \E k \in 1..Len(ch) :
          /\ ch[k].desc = "openvpn_server_route_last_reference_time_seconds"
          /\ Len(ch[k].labels) = 13

\* logged rows that were not dropped, carry a Real Address and whose address
\* the resolver failed to resolve (a failure leaves the cache without an entry)
GeoFailedRows ==
    {i \in 1..Len(rowLog) :
        /\ ~rowLog[i].dropped
        /\ ValueOf(FieldsAt(rowLog[i].line), rowLog[i].columnNames, S("Real Address"))
              # EmptyString
        /\ AddressOf(ValueOf(FieldsAt(rowLog[i].line), rowLog[i].columnNames,
                             S("Real Address"))) \notin DOMAIN geoCache}

\* the metric fields of a row that are read from the snapshot
SnapshotMetricColumns == {S("Bytes Received"), S("Bytes Sent"), S("Last Ref (time_t)")}

C12_GeoFailureDistanceZero ==
    \A i \in GeoFailedRows :
        (/\ rowLog[i].rtype = S("CLIENT_LIST")
         /\ ~(err = "ParseFloat" /\ scanned = rowLog[i].line)
         /\ \A k \in 1..Len(ch) :
               ch[k].desc = "openvpn_server_client_distance" => ch[k].line >= rowLog[i].line)
        => \E k \in SentAtLine(rowLog[i].line) :
              /\ ch[k].desc = "openvpn_server_client_distance"
              /\ ch[k].value = 0

\* the exporter was constructed and its own resolution at startup failed: the
\* lookup of the empty address was issued and left no cache entry
ServerGeoFailed ==
    /\ pc # "new"
    /\ lookups # << >>
    /\ lookups[1] = EmptyString
    /\ EmptyString \notin DOMAIN geoCache

\* C13: if the server's own resolution failed at startup, its latitude and
\* longitude are both zero, every tuple sent carries five empty server-level
\* labels first, and every server_client_distance tuple sent has value 0
\* whatever coordinates the client resolved to.
C13_ServerGeoFailedZeroDistance ==
    ServerGeoFailed =>
        /\ geoIP.Lat = 0
        /\ geoIP.Lon = 0
        /\ \A k \in 1..Len(ch) :
              /\ Len(ch[k].labels) >= 5
              /\ SubSeq(ch[k].labels, 1, 5) =
                     <<EmptyString, EmptyString, EmptyString, EmptyString, EmptyString>>
              /\ ch[k].desc = "openvpn_server_client_distance" => ch[k].value = 0

\* C13 witness: under a failed server resolution a client resolved to
\* coordinates away from (0, 0) got a distance tuple of 0, and the scrape
\* ended without error
C13_Witness ==
    /\ ServerGeoFailed
    /\ pc = "done"
    /\ err = "nil"
    /\ \E k \in 1..Len(ch) :
          /\ ch[k].desc = "openvpn_server_client_distance"
          /\ ch[k].value = 0
          /\ \E i \in 1..Len(rowLog) :
                /\ rowLog[i].line = ch[k].line
                /\ rowLog[i].resolved
                /\ geoCache[S("1.2.3.4")].Lat # 0

\* the scrapes so far ran one after another: no second goroutine has been in Collect
OneAtATime ==
    scrapers[2] = [pc |-> "idle", address |-> EmptyString, geo |-> ZeroGeoIP, resolves |-> 0]

\* how many lookups were issued for address a
LookupsOf(a) == Cardinality({i \in 1..Len(lookups) : lookups[i] = a})

\* C14 as stated: across any sequence of scrapes the network lookup is issued
\* at most once per distinct address.
C14_OneLookupPerAddress ==
    OneAtATime => \A a \in ScrapedAddresses \cup {EmptyString} : LookupsOf(a) <= 1

\* C14 amended: getGeo memoizes successful lookups by exact address for the
\* process lifetime.  A cache entry is never removed or changed; a resolve whose
\* cache read finds the address returns the stored value without a lookup; a
\* lookup is issued only by the startup resolve or by a resolve whose cache
\* read found no entry; a successful lookup is stored under its address and a
\* failed one stores nothing; and while scrapes run one after another no
\* lookup is ever issued for an address the cache holds, so at most one lookup
\* per address succeeds.
C14_SuccessfulLookupsMemoized ==
    [][/\ \A a \in DOMAIN geoCache : a \in DOMAIN geoCache' /\ geoCache'[a] = geoCache[a]
       /\ \A g \in Scrapers :
             /\ (scrapers[g].pc = "rows" /\ scrapers'[g].pc = "get")
                   => scrapers'[g].address \notin DOMAIN geoCache
             /\ (/\ scrapers[g].pc = "rows"
                 /\ scrapers'[g].resolves = scrapers[g].resolves + 1
                 /\ scrapers'[g].address \in DOMAIN geoCache)
                   => /\ scrapers'[g].pc = "rows"
                      /\ scrapers'[g].geo = geoCache[scrapers'[g].address]
                      /\ lookups' = lookups
             /\ (scrapers[g].pc = "writing" /\ scrapers'[g].pc = "rows")
                   => /\ scrapers[g].address \in DOMAIN geoCache'
                      /\ geoCache'[scrapers[g].address] = scrapers[g].geo
             /\ (scrapers[g].pc = "get" /\ scrapers'[g].pc = "rows") => geoCache' = geoCache
       /\ lookups' # lookups =>
             \/ pc = "new" /\ lookups' = <<EmptyString>>
             \/ \E g \in Scrapers :
                   /\ scrapers[g].pc = "get"
                   /\ lookups' = Append(lookups, scrapers[g].address)
       /\ OneAtATime' => \A a \in DOMAIN geoCache : lookups' # Append(lookups, a)]_vars

\* C14 witness: in scrapes run one after another an address was resolved
\* twice with a single lookup, the second resolve being served from the cache
C14_Witness ==
    /\ OneAtATime
    /\ scrapers[1].pc = "rows"
    /\ scrapers[1].resolves = 2
    /\ scrapers[1].address \in DOMAIN geoCache
    /\ LookupsOf(scrapers[1].address) = 1
    /\ \A a \in ScrapedAddresses \ {scrapers[1].address} : LookupsOf(a) = 0

\* tuples of metric descriptor d sent before line n
SentBefore(d, n) == {k \in 1..Len(ch) : ch[k].desc = d /\ ch[k].line < n}

\* the row r stopped the scrape with a parse error before it sent a tuple of d
FailedBefore(r, d) ==
    /\ err = "ParseFloat"
    /\ scanned = r.line
    /\ \A k \in SentAtLine(r.line) : ch[k].desc # d

\* C15: for each metric field whose column a non-dropped row has, the row is
\* suppressed as a duplicate exactly when the label vector of some single
\* tuple sent earlier for that same metric contains every value of the row's
\* label vector; values covered only jointly by several earlier rows, or
\* recorded for another metric or record type, do not suppress it.
C15_DuplicateBySingleCombination ==
    \A i \in 1..Len(rowLog) :
        ~rowLog[i].dropped =>
            \A m \in MetricsOf(rowLog[i].rtype) :
                (m.Column \in rowLog[i].columns /\ ~FailedBefore(rowLog[i], m.Desc)) =>
                    ((\A k \in SentAtLine(rowLog[i].line) : ch[k].desc # m.Desc)
                     <=> \E k \in SentBefore(m.Desc, rowLog[i].line) :
                            \A v \in Range(rowLog[i].labels) : v \in Range(ch[k].labels))

\* line j is a HEADER line of at least n fields naming record type t
IsDeclarationFor(j, t, n) == IsHeaderFor(j, t) /\ Len(FieldsAt(j)) >= n

\* the fields after fields[1] of the last HEADER line of at least n fields for
\* t among the first i lines
LastDeclared(i, t, n) ==
    LET j == CHOOSE j \in 1..i :
                 /\ IsDeclarationFor(j, t, n)
                 /\ \A k \in (j+1)..i : ~IsDeclarationFor(k, t, n)
    IN  SubSeq(FieldsAt(j), 3, Len(FieldsAt(j)))

\* HEADER lines of at least n fields are accepted without error and the column
\* order held for a record type is that of its most recent such line, which
\* the rows that follow are read against
HeadersAccepted(n) ==
    /\ \A i \in 1..scanned :
          (FieldsAt(i)[1] = S("HEADER") /\ Len(FieldsAt(i)) >= n) =>
              /\ ~(pc = "done" /\ scanned = i /\ err \notin {"nil", "read error"})
              /\ FieldsAt(i)[2] \in DOMAIN headersFound
    /\ \A t \in DOMAIN headersFound :
          /\ \E j \in 1..scanned : IsDeclarationFor(j, t, n)
          /\ headersFound[t] = LastDeclared(scanned, t, n)
    /\ \A r \in 1..Len(rowLog) :
          rowLog[r].columnNames = LastDeclared(rowLog[r].line, rowLog[r].rtype, n)

\* C16 as stated: every HEADER line with at least 2 fields is accepted without
\* error and sets the column order of record type fields[1] to the remaining
\* fields (none when there are exactly 2), replacing any earlier declaration;
\* rows of that type that follow are read against the most recent declaration.
C16_HeaderTwoFieldsAccepted == HeadersAccepted(2)

\* C16 amended: every HEADER line with at least 3 fields is accepted without
\* error and sets the column order of record type fields[1] to the fields
\* after it, replacing any earlier declaration; rows of that type that follow
\* are read against the most recent declaration.  A HEADER line with fewer
\* than 3 fields stops the scrape with the unsupported-key error.
C16_HeaderThreeFieldsAccepted ==
    /\ HeadersAccepted(3)
    /\ \A i \in 1..scanned :
          (FieldsAt(i)[1] = S("HEADER") /\ Len(FieldsAt(i)) < 3) =>
              /\ i = scanned
              /\ pc = "done"
              /\ err = "unsupported key"

\* C16 witness: a CLIENT_LIST declaration replaced by one with other columns,
\* and a later row read against the second in a scrape that ended without error
C16_Witness ==
    /\ pc = "done"
    /\ err = "nil"
    /\ \E r \in 1..Len(rowLog) :
          /\ ~rowLog[r].dropped
          /\ SentAtLine(rowLog[r].line) # {}
          /\ \E j \in 1..rowLog[r].line, k \in 1..rowLog[r].line :
                /\ j < k
                /\ IsDeclarationFor(j, rowLog[r].rtype, 3)
                /\ IsDeclarationFor(k, rowLog[r].rtype, 3)
                /\ Len(FieldsAt(j)) # Len(FieldsAt(k))
                /\ rowLog[r].columnNames = SubSeq(FieldsAt(k), 3, Len(FieldsAt(k)))

\* the engine's duplicate test for row r and metric m: every value of the row's
\* label vector occurs among the label values recorded for m by earlier rows
JudgedDuplicate(r, m) ==
    /\ SentBefore(m.Desc, r.line) # {}
    /\ \A v \in Range(r.labels) :
          \E k \in SentBefore(m.Desc, r.line) : v \in Range(ch[k].labels)

\* position of a per-row metric in the order received, sent, distance (last
\* reference being the one field of ROUTING_TABLE)
SchemaPosition(d) ==
    IF d = "openvpn_server_client_received_bytes_total" THEN 1
    ELSE IF d = "openvpn_server_client_sent_bytes_total" THEN 2
    ELSE IF d = "openvpn_server_client_distance" THEN 3
    ELSE 1

\* the snapshot of section 8: HEADER CLIENT_LIST [Common Name, Bytes Received,
\* Bytes Sent] and the one row [alice, 100, 200]
ExampleSnapshot ==
    <<Join(<<S("TITLE"), S("OpenVPN 2.4")>>, Comma),
      HeaderLine(Comma, "CLIENT_LIST", <<"Common Name", "Bytes Received", "Bytes Sent">>),
      RowLine(Comma, "CLIENT_LIST", <<S("alice"), S("100"), S("200")>>)>>

C18_NoTwoTuplesSameIdentity ==
    \A k1, k2 \in 1..Len(ch) :
        (ch[k1].desc = ch[k2].desc /\ ch[k1].labels = ch[k2].labels) => k1 = k2

\* a Real Address without its trailing ":port": everything before its last colon
StripPort(realAddress) ==
    IF \E i \in 1..Len(realAddress) : realAddress[i] = Colon
    THEN LET last == CHOOSE i \in 1..Len(realAddress) :
                         /\ realAddress[i] = Colon
                         /\ \A j \in (i+1)..Len(realAddress) : realAddress[j] # Colon
         IN  SubSeq(realAddress, 1, last - 1)
    ELSE realAddress

\* the Real Address of the logged row r
RealAddressOf(r) == ValueOf(FieldsAt(r.line), r.columnNames, S("Real Address"))

\* C19: the address handed to the resolver for a row is the row's Real Address
\* with only its trailing ":port" removed, host for host:port and the whole IP
\* portion for an address that itself contains colons: every address looked up
\* after the startup lookup is such an address of a row, and a resolved row
\* has its address in the cache.
C19_AddressIsRealAddressWithoutPort ==
    /\ \A i \in 1..Len(lookups) :
          \/ i = 1 /\ lookups[i] = EmptyString
          \/ \E r \in 1..Len(rowLog) :
                /\ ~rowLog[r].dropped
                /\ RealAddressOf(rowLog[r]) # EmptyString
                /\ lookups[i] = StripPort(RealAddressOf(rowLog[r]))
    /\ \A r \in 1..Len(rowLog) :
          rowLog[r].resolved => StripPort(RealAddressOf(rowLog[r])) \in DOMAIN geoCache

\* goroutine g is between a cache read that found no entry and the completion
\* of its assignment to the cache
InFlight(g) == scrapers[g].pc \in {"get", "write", "writing"}

\* C20: access to geoCache is safe under two concurrent scrapes: the two are
\* never both between the cache-miss check and the cache write for one
\* address, never both inside the assignment to the cache, never both holding
\* the result of a lookup of one address, and the runtime never stops the
\* process for a concurrent map access.
C20_CacheAccessSafe ==
    \A g, h \in Scrapers :
        /\ scrapers[g].pc # "fatal"
        /\ g # h =>
              /\ ~(/\ InFlight(g)
                   /\ InFlight(h)
                   /\ scrapers[g].address = scrapers[h].address)
              /\ ~(scrapers[g].pc = "writing" /\ scrapers[h].pc = "writing")
              /\ ~(/\ scrapers[g].pc \in {"write", "writing"}
                   /\ scrapers[h].pc \in {"write", "writing"}
                   /\ scrapers[g].address = scrapers[h].address)

====
